---- MODULE Spec2Model ----
(***************************************************************************)
(* A model of src/code.cc: the result cell (CoroutineRetvalHolder), the    *)
(* dual-mode awaitable (CoroutineAwaitResume / Async), the promise that    *)
(* publishes into the cell (Promise::return_value / return_void) and the   *)
(* Task that owns the coroutine frame.                                     *)
(*                                                                         *)
(* Every method is a sequence of steps of the thread that calls it, one    *)
(* step per access to the cell, so that two calls interleave exactly where *)
(* the mutex lets them.  A call made by a method (h.resume(), and the      *)
(* await_resume a resumed coroutine runs first) is a frame pushed on the   *)
(* calling thread's stack: it runs inline, before the caller goes on.      *)
(***************************************************************************)
EXTENDS Integers, Sequences, FiniteSets, TLC

\* ------------------------------------------------------------------ bounds
\* Coroutine handles that can be handed to await_suspend as continuations.
NumConts == 2
\* How many times return_value / return_void may be called on one promise.
MaxPublish == 2
\* How many Task objects can be move-constructed for one coroutine.
MaxMoves == 2

\* ------------------------------------------------------------- the universe
Threads == {"t1", "t2"}
\* The thread that runs the coroutine's body and publishes, and the thread the
\* awaiting side runs on.
Publishers == {"t1"}
Awaiters == {"t2"}
NoThread == "none"
Conts == 1..NumConts
NoCont == 0
\* The two coroutines of the program: foo is a Task<int>, bar a Task<>.
Cells == {"foo", "bar"}
NoCell == "nocell"
IsVoid(c) == c = "bar"
\* What foo's body returns, and another int for the calls a caller may make.
FooResult == 42
\* The handle of bar's coroutine.
BarHandle == 1
Values == {FooResult, 7}
\* The result of a void await_resume, and of a call that returns nothing.
Void == -1
\* An int that was never written (RETVAL value; has no initializer).
Uninit == -2
\* What a read of an uninitialized or freed int can produce.
AnyInt == Values \cup {0}

\* ------------------------------------------------------------- the build
\* The names the translation unit declares at namespace scope inside
\* #ifdef TELEMETRY, in the order of their points of declaration: struct
\* ExecutorStats, struct Executor, and the function Executor& Executor().
Declarations(defined) ==
    IF defined
    THEN <<[name |-> "ExecutorStats", kind |-> "struct"],
           [name |-> "Executor", kind |-> "struct"],
           [name |-> "Executor", kind |-> "function"]>>
    ELSE <<>>

\* Unqualified lookup of name where the first n declarations are visible: a
\* function declared in the same scope as a class of the same name hides the
\* class name.
Lookup(decls, name, n) ==
    LET found == {decls[i].kind : i \in {j \in 1..n : decls[j].name = name}}
    IN IF "function" \in found THEN "function"
       ELSE IF "struct" \in found THEN "struct"
       ELSE "undeclared"

\* Where a name is used as a type, and how many of the declarations are
\* visible there: ExecutorStats stats; (in struct Executor), the return type
\* Executor& (before the function's declarator), and static Executor executor;
\* (in the function's body).
TypeNames(defined) ==
    IF defined
    THEN {[name |-> "ExecutorStats", visible |-> 2],
          [name |-> "Executor", visible |-> 2],
          [name |-> "Executor", visible |-> 3]}
    ELSE {}

\* The translation unit is well-formed when every name used as a type names
\* a type; otherwise the build produces no program.
WellFormed(defined) ==
    \A u \in TypeNames(defined) :
        Lookup(Declarations(defined), u.name, u.visible) = "struct"
translation_unit(defined) ==
    IF WellFormed(defined) THEN "running" ELSE "ill-formed"

\* struct ExecutorStats: three counters, each initialized to 0.
ExecutorStats ==
    [total_awaitable_ready |-> 0, total_awaitable_need_to_wait |-> 0,
     total_immediate_ready |-> 0]

VARIABLES
    holder,     \* holder[c]: the CoroutineRetvalHolder inside c's promise
    frame,      \* frame[c]: "live" | "destroyed", the coroutine frame of c
    destroyed,  \* destroyed[c]: how many times c's frame has been destroyed
    body,       \* body[c]: "running" | "returning" | "done", the body of c
    task,       \* task[k]: a Task object: its state and its handle
    stack,      \* stack[t]: the call stack of thread t, innermost call last
    awaiting,   \* awaiting[h]: the awaitable coroutine h is suspended on, and
                \*   co, the coroutine h is the handle of (NoCell: some caller's)
    resumed,    \* resumed[h]: how many times h.resume() has been called
    published,  \* published[c]: how many return_value/return_void calls began
    registered, \* registered[c]: history, the handles in push_back order
    woken,      \* woken[c]: history, the handles the last publish resumed
    proc,       \* "running" | "terminated" (std::terminate) | "crashed" |
                \*   "exited" | "ill-formed" (the build has no program)
    TELEMETRY,  \* whether the macro TELEMETRY is defined for the build
    stats       \* Executor().stats, the counters of the TELEMETRY build

telemetry == <<TELEMETRY, stats>>
vars == <<holder, frame, destroyed, body, task, stack, awaiting, resumed,
          published, registered, woken, proc, telemetry>>

\* The Task objects of a coroutine: the one get_return_object makes, and the
\* ones move constructions make, numbered in the order they are constructed.
Made(c) == <<c, 0>>
Moved(c) == {<<c, i>> : i \in 1..MaxMoves}
Tasks == {Made(c) : c \in Cells} \cup UNION {Moved(c) : c \in Cells}

\* --------------------------------------------------------------- call stack
\* One activation record.  op: the method; pc: the place in it; cell: the
\* holder it works on (pself, or handle.promise().holder); h: the coroutine
\* handle passed in; val: the argument, then the value returned; ready: what
\* await_ready returns; imm: is_immediate; todo: what the range-for over
\* to_resume has still to visit; owns: whether the frame's lock_guard holds
\* the mutex.
Frame(op, pc, c, h, v, imm) ==
    [op |-> op, pc |-> pc, cell |-> c, h |-> h, val |-> v, imm |-> imm,
     ready |-> FALSE, todo |-> <<>>, owns |-> FALSE]

Idle(t) == stack[t] = <<>>
Top(t) == stack[t][Len(stack[t])]
At(t, op, pc) == ~Idle(t) /\ Top(t).op = op /\ Top(t).pc = pc
SetTop(t, f) == [stack EXCEPT ![t] = [@ EXCEPT ![Len(@)] = f]]
Goto(t, pc) == SetTop(t, [Top(t) EXCEPT !.pc = pc])
\* A call: the caller's frame becomes `caller` (where it goes on when the
\* callee returns) and the callee's frame f runs first.
Call(t, caller, f) ==
    [stack EXCEPT ![t] = Append([@ EXCEPT ![Len(@)] = caller], f)]
Pop(t) == [stack EXCEPT ![t] = SubSeq(@, 1, Len(@) - 1)]

Live(c) == frame[c] = "live"

\* ------------------------------------------------ reads through a pointer
\* A read of a field of a destroyed frame, or of the int nobody has written,
\* yields whatever the memory holds.
ReadReturned(c) == IF Live(c) THEN {holder[c].returned} ELSE BOOLEAN
ReadValue(c) ==
    IF IsVoid(c) THEN {Void}
    ELSE IF Live(c) /\ holder[c].value # Uninit THEN {holder[c].value}
    ELSE AnyInt
ReadToResume(c) ==
    IF Live(c) THEN {holder[c].to_resume} ELSE {holder[c].to_resume, <<>>}

\* ------------------------------------------------------------ std::mutex
\* std::lock_guard<std::mutex> lock(holder.mut): the outcomes of the frame on
\* top of t taking the mutex and going on to pc.  While another thread holds
\* the mutex there is none (the thread waits).  Locking a mutex the thread
\* already owns is undefined: the thread deadlocks, the lock throws
\* std::system_error (fatal: the callers are noexcept, or a coroutine whose
\* unhandled_exception terminates), or the lock is a no-op and the frame goes
\* on without owning the mutex.  A destroyed mutex is freed memory: the frame
\* goes on without owning anything (or crashes, see use_after_free).
Outcome(hd, st, pr) == [holder |-> hd, stack |-> st, proc |-> pr]
lock_guard(t, pc) ==
    LET c == Top(t).cell IN
    IF ~Live(c)
    THEN {Outcome(holder, Goto(t, pc), proc)}
    ELSE IF holder[c].mut = NoThread
    THEN {Outcome([holder EXCEPT ![c].mut = t],
                  SetTop(t, [Top(t) EXCEPT !.pc = pc, !.owns = TRUE]), proc)}
    ELSE IF holder[c].mut = t
    THEN {Outcome(holder, Goto(t, "deadlocked"), proc),
          Outcome(holder, Goto(t, "std::terminate"), "terminated"),
          Outcome(holder, Goto(t, pc), proc)}
    ELSE {}

\* The lock_guard's destructor at the end of the method's scope.
unlock_guard(t) ==
    LET c == Top(t).cell IN
    IF Top(t).owns /\ Live(c) /\ holder[c].mut = t
    THEN [holder EXCEPT ![c].mut = NoThread] ELSE holder

\* A write through a pointer into the holder; into a destroyed frame it lands
\* in freed memory.
Store(c, h2) == IF Live(c) THEN [holder EXCEPT ![c] = h2] ELSE holder

\* A method that is about to touch the holder of a destroyed frame uses freed
\* memory: besides going on with whatever the memory holds (ReadReturned,
\* ReadValue, ReadToResume, Store), the access can fault.
use_after_free(t) ==
    /\ proc = "running"
    /\ ~Idle(t)
    /\ Top(t).op \notin {"main", "bar", "body", "resume"}
    /\ Top(t).pc \notin {"ret", "deadlocked"}
    /\ Top(t).cell \in Cells
    /\ frame[Top(t).cell] = "destroyed"
    /\ proc' = "crashed" /\ UNCHANGED telemetry
    /\ stack' = Goto(t, "fault")
    /\ UNCHANGED <<holder, frame, destroyed, body, task, awaiting,
                   resumed, published, registered, woken>>

Running == proc = "running"

\* ---------------------------------------------------- coroutine_handle::resume
NotAwaiting == [kind |-> "none", cell |-> NoCell, co |-> NoCell]

\* The frame of h.resume(): the coroutine h goes on where it was suspended.
ResumeFrame(h) ==
    IF awaiting[h].co = NoCell
    THEN Frame("resume", "enter", awaiting[h].cell, h, Void, FALSE)
    ELSE Frame(awaiting[h].co, "enter", awaiting[h].co, h, Void, FALSE)

\* The resumed coroutine goes on inside its co_await: it calls the
\* await_resume of the awaitable it was suspended on.  What its body does
\* after that is the caller's code, not modelled: it returns to the resumer.
coroutine_resume(t) ==
    /\ Running
    /\ \/ /\ At(t, "resume", "enter")
          /\ stack' = Call(t, [Top(t) EXCEPT !.pc = "rest"],
                Frame(IF awaiting[Top(t).h].kind = "task"
                        THEN "Task::await_resume"
                        ELSE "CoroutineAwaitResume::await_resume",
                      "enter", Top(t).cell, NoCont, Void, FALSE))
       \/ /\ At(t, "resume", "rest")
          /\ stack' = Pop(t)
    /\ UNCHANGED <<holder, frame, destroyed, body, task, awaiting, resumed,
                   published, registered, woken, proc, telemetry>>

\* A method returns to its caller; bar's body is the one caller that keeps
\* what await_ready and await_resume return.
Return(t) ==
    /\ Running
    /\ ~Idle(t) /\ Top(t).pc = "ret"
    /\ LET s == stack[t]
           n == Len(s)
       IN stack' = [stack EXCEPT ![t] =
            IF n > 1 /\ s[n - 1].op = "bar" /\ s[n].op = "Task::await_ready"
            THEN SubSeq([s EXCEPT ![n - 1].ready = s[n].ready], 1, n - 1)
            ELSE IF n > 1 /\ s[n - 1].op = "bar" /\ s[n].op = "Task::await_resume"
            THEN SubSeq([s EXCEPT ![n - 1].val = s[n].val], 1, n - 1)
            ELSE SubSeq(s, 1, n - 1)]
    /\ UNCHANGED <<holder, frame, destroyed, body, task, awaiting, resumed,
                   published, registered, woken, proc, telemetry>>

\* ------------------------------------------------- Promise: the publish step
\* The steps return_value and return_void share; op names the method.
\* std::lock_guard<std::mutex> lock(holder.mut);
PublishLock(t, op, pc) ==
    /\ At(t, op, "lock")
    /\ \E o \in lock_guard(t, pc) :
          holder' = o.holder /\ stack' = o.stack /\ proc' = o.proc /\ UNCHANGED telemetry
    /\ UNCHANGED <<frame, destroyed, body, task, awaiting, resumed,
                   published, registered, woken>>

\* holder.returned = true; then the range-for takes begin() and end().
SetReturned_toggle(c) == Store(c, [holder[c] EXCEPT !.returned = ~@])
SetReturned(c) == Store(c, [holder[c] EXCEPT !.returned = TRUE])
PublishFlag(t, op) ==
    /\ At(t, op, "flag")
    /\ holder' = SetReturned(Top(t).cell)
    /\ \E q \in ReadToResume(Top(t).cell) :
          stack' = SetTop(t, [Top(t) EXCEPT !.pc = "loop", !.todo = q])
    /\ woken' = [woken EXCEPT ![Top(t).cell] = <<>>]
    /\ UNCHANGED <<frame, destroyed, body, task, awaiting, resumed,
                   published, registered, proc, telemetry>>

\* for (auto& h : holder.to_resume) h.resume();   one iteration
PublishLoop(t, op) ==
    /\ At(t, op, "loop")
    /\ Top(t).todo # <<>>
    /\ LET h == Head(Top(t).todo) IN
          /\ resumed' = [resumed EXCEPT ![h] = @ + 1]
          /\ woken' = [woken EXCEPT ![Top(t).cell] = Append(@, h)]
          /\ stack' = Call(t, [Top(t) EXCEPT !.todo = Tail(@)], ResumeFrame(h))
    /\ UNCHANGED <<holder, frame, destroyed, body, task, awaiting,
                   published, registered, proc, telemetry>>

\* The loop is over; the lock_guard goes out of scope and the method returns.
PublishUnlock(t, op) ==
    /\ At(t, op, "loop")
    /\ Top(t).todo = <<>>
    /\ holder' = unlock_guard(t)
    /\ stack' = SetTop(t, [Top(t) EXCEPT !.pc = "ret", !.owns = FALSE])
    /\ UNCHANGED <<frame, destroyed, body, task, awaiting, resumed,
                   published, registered, woken, proc, telemetry>>

\* holder.value = std::move(value);
StoreValue(c, v) == Store(c, [holder[c] EXCEPT !.value = v])

\* Promise<T>::return_value(T value)
Promise_return_value(t) ==
    /\ Running
    /\ \/ PublishLock(t, "Promise::return_value", "store")
       \/ /\ At(t, "Promise::return_value", "store")
          /\ holder' = StoreValue(Top(t).cell, Top(t).val)
          /\ stack' = Goto(t, "flag")
          /\ UNCHANGED <<frame, destroyed, body, task, awaiting, resumed,
                         published, registered, woken, proc, telemetry>>
       \/ PublishFlag(t, "Promise::return_value")
       \/ PublishLoop(t, "Promise::return_value")
       \/ PublishUnlock(t, "Promise::return_value")

\* Promise<void>::return_void()
Promise_return_void_no_resume(t) ==
    /\ Running
    /\ \/ PublishLock(t, "Promise::return_void", "flag")
       \/ /\ At(t, "Promise::return_void", "flag")
          /\ holder' = SetReturned(Top(t).cell)
          /\ stack' = Goto(t, "loop")
          /\ UNCHANGED <<frame, destroyed, body, task, awaiting, resumed,
                         published, registered, woken, proc, telemetry>>
       \/ PublishUnlock(t, "Promise::return_void")
Promise_return_void(t) ==
    /\ Running
    /\ \/ PublishLock(t, "Promise::return_void", "flag")
       \/ PublishFlag(t, "Promise::return_void")
       \/ PublishLoop(t, "Promise::return_void")
       \/ PublishUnlock(t, "Promise::return_void")

\* The publishing method of c's promise, called with v (return_void takes none).
PublishFrame(c, v) ==
    IF IsVoid(c) THEN Frame("Promise::return_void", "lock", c, NoCont, Void, FALSE)
    ELSE Frame("Promise::return_value", "lock", c, NoCont, v, FALSE)
PublishArgs(c) == IF IsVoid(c) THEN {Void} ELSE Values

\* ------------------------------------------------------------ awaitables
\* if (!pself->returned) std::terminate();   r is what returned reads as
AwaitResumeFatal_never(r) == FALSE
AwaitResumeFatal(r) == ~r

\* RETVAL CoroutineAwaitResume<RETVAL>::await_resume() const noexcept, and
\* its <void> specialization, which returns nothing.
CoroutineAwaitResume_await_resume(t) ==
    /\ Running
    /\ \/ /\ At(t, "CoroutineAwaitResume::await_resume", "enter")
          /\ Top(t).imm
          /\ stack' = Goto(t, "ret")
          /\ UNCHANGED <<holder, proc, telemetry>>
       \/ /\ At(t, "CoroutineAwaitResume::await_resume", "enter")
          /\ ~Top(t).imm
          /\ \E o \in lock_guard(t, "check") :
                holder' = o.holder /\ stack' = o.stack /\ proc' = o.proc /\ UNCHANGED telemetry
       \/ /\ At(t, "CoroutineAwaitResume::await_resume", "check")
          /\ \E r \in ReadReturned(Top(t).cell) :
                IF AwaitResumeFatal(r)
                THEN /\ proc' = "terminated" /\ UNCHANGED telemetry
                     /\ stack' = Goto(t, "std::terminate")
                     /\ holder' = holder
                ELSE /\ \E v \in ReadValue(Top(t).cell) :
                           stack' = SetTop(t, [Top(t) EXCEPT !.pc = "unlock", !.val = v])
                     /\ UNCHANGED <<holder, proc, telemetry>>
       \/ /\ At(t, "CoroutineAwaitResume::await_resume", "unlock")
          /\ holder' = unlock_guard(t)
          /\ stack' = SetTop(t, [Top(t) EXCEPT !.pc = "ret", !.owns = FALSE])
          /\ proc' = proc /\ UNCHANGED telemetry
    /\ UNCHANGED <<frame, destroyed, body, task, awaiting, resumed,
                   published, registered, woken>>

\* ++Executor().stats.counter; compiled only #ifdef TELEMETRY
Increment(counter) ==
    IF TELEMETRY THEN [stats EXCEPT ![counter] = @ + 1] ELSE stats

\* bool Async::await_ready() const noexcept
\* Without TELEMETRY the deferred branch is return pself->returned; with it,
\* the same test picks the counter to increment and the literal to return.
Async_await_ready(t) ==
    /\ Running
    /\ \/ /\ At(t, "Async::await_ready", "enter")
          /\ Top(t).imm
          /\ stats' = Increment("total_immediate_ready")
          /\ stack' = SetTop(t, [Top(t) EXCEPT !.pc = "ret", !.ready = TRUE])
          /\ UNCHANGED <<holder, proc, TELEMETRY>>
       \/ /\ At(t, "Async::await_ready", "enter")
          /\ ~Top(t).imm
          /\ \E o \in lock_guard(t, "read") :
                holder' = o.holder /\ stack' = o.stack /\ proc' = o.proc /\ UNCHANGED telemetry
       \/ /\ At(t, "Async::await_ready", "read")
          /\ \E r \in ReadReturned(Top(t).cell) :
                /\ stats' = Increment(IF r THEN "total_awaitable_ready"
                                           ELSE "total_awaitable_need_to_wait")
                /\ stack' = SetTop(t, [Top(t) EXCEPT !.pc = "unlock",
                                                     !.ready = IF r THEN TRUE ELSE FALSE])
          /\ UNCHANGED <<holder, proc, TELEMETRY>>
       \/ /\ At(t, "Async::await_ready", "unlock")
          /\ holder' = unlock_guard(t)
          /\ stack' = SetTop(t, [Top(t) EXCEPT !.pc = "ret", !.owns = FALSE])
          /\ proc' = proc /\ UNCHANGED telemetry
    /\ UNCHANGED <<frame, destroyed, body, task, awaiting, resumed,
                   published, registered, woken>>

\* holder.to_resume.push_back(h)
PushBack_front(q, h) == <<h>> \o q
PushBack(q, h) == Append(q, h)

\* The locked part Async::await_suspend and Task::await_suspend share:
\*   if (returned) h.resume(); else to_resume.push_back(h);
SuspendCheck(t, op) ==
    /\ At(t, op, "check")
    /\ LET c == Top(t).cell
           h == Top(t).h
       IN \E r \in ReadReturned(c) :
            IF r
            THEN /\ resumed' = [resumed EXCEPT ![h] = @ + 1]
                 /\ stack' = Call(t, [Top(t) EXCEPT !.pc = "unlock"], ResumeFrame(h))
                 /\ UNCHANGED <<holder, registered>>
            ELSE /\ holder' = Store(c, [holder[c] EXCEPT
                                    !.to_resume = PushBack(@, h)])
                 /\ registered' = IF Live(c)
                                  THEN [registered EXCEPT ![c] = Append(@, h)]
                                  ELSE registered
                 /\ stack' = Goto(t, "unlock")
                 /\ UNCHANGED resumed
    /\ UNCHANGED <<frame, destroyed, body, task, awaiting, published, woken, proc, telemetry>>

SuspendUnlock(t, op) ==
    /\ At(t, op, "unlock")
    /\ holder' = unlock_guard(t)
    /\ stack' = SetTop(t, [Top(t) EXCEPT !.pc = "ret", !.owns = FALSE])
    /\ UNCHANGED <<frame, destroyed, body, task, awaiting, resumed,
                   published, registered, woken, proc, telemetry>>

\* The else branch of Async::await_suspend: the awaitable is immediate.
\* "FATAL: Should never attempt to `await_suspend` an immediate value."
await_suspend_immediate_resumes(t) ==
    /\ resumed' = [resumed EXCEPT ![Top(t).h] = @ + 1]
    /\ stack' = Goto(t, "ret")
    /\ UNCHANGED <<holder, registered, proc, telemetry>>
await_suspend_immediate(t) ==
    /\ proc' = "terminated" /\ UNCHANGED telemetry
    /\ stack' = Goto(t, "std::terminate")
    /\ UNCHANGED <<holder, registered, resumed>>

\* void Async::await_suspend(std::coroutine_handle<> h) noexcept
Async_await_suspend(t) ==
    /\ Running
    /\ \/ /\ At(t, "Async::await_suspend", "enter")
          /\ Top(t).imm
          /\ await_suspend_immediate(t)
          /\ UNCHANGED <<frame, destroyed, body, task, awaiting, published, woken>>
       \/ /\ At(t, "Async::await_suspend", "enter")
          /\ ~Top(t).imm
          /\ \E o \in lock_guard(t, "check") :
                holder' = o.holder /\ stack' = o.stack /\ proc' = o.proc /\ UNCHANGED telemetry
          /\ UNCHANGED <<frame, destroyed, body, task, awaiting, resumed,
                         published, registered, woken>>
       \/ SuspendCheck(t, "Async::await_suspend")
       \/ SuspendUnlock(t, "Async::await_suspend")

\* bool Task::await_ready() const noexcept: no lock is taken.
Task_await_ready(t) ==
    /\ Running
    /\ At(t, "Task::await_ready", "enter")
    /\ \E r \in ReadReturned(Top(t).cell) :
          stack' = SetTop(t, [Top(t) EXCEPT !.pc = "ret", !.ready = r])
    /\ UNCHANGED <<holder, frame, destroyed, body, task, awaiting, resumed,
                   published, registered, woken, proc, telemetry>>

\* void Task::await_suspend(std::coroutine_handle<> h) noexcept
Task_await_suspend(t) ==
    /\ Running
    /\ \/ /\ At(t, "Task::await_suspend", "enter")
          /\ \E o \in lock_guard(t, "check") :
                holder' = o.holder /\ stack' = o.stack /\ proc' = o.proc /\ UNCHANGED telemetry
          /\ UNCHANGED <<frame, destroyed, body, task, awaiting, resumed,
                         published, registered, woken>>
       \/ SuspendCheck(t, "Task::await_suspend")
       \/ SuspendUnlock(t, "Task::await_suspend")

\* T Task::await_resume() const: no lock is taken and returned is not read.
Task_await_resume(t) ==
    /\ Running
    /\ At(t, "Task::await_resume", "enter")
    /\ \E v \in ReadValue(Top(t).cell) :
          stack' = SetTop(t, [Top(t) EXCEPT !.pc = "ret", !.val = v])
    /\ UNCHANGED <<holder, frame, destroyed, body, task, awaiting, resumed,
                   published, registered, woken, proc, telemetry>>

\* ------------------------------------------------------------------- Task
\* handle.destroy(): the frame is destroyed, and with it the promise, the
\* holder and its mutex.  Destroying a frame that is already destroyed is
\* undefined: the allocator aborts, or nothing is noticed.
DestroyFrame_leak(c) == frame
DestroyFrame(c) == [frame EXCEPT ![c] = "destroyed"]
handle_destroy(c) ==
    LET n == [destroyed EXCEPT ![c] = @ + 1] IN
    IF Live(c)
    THEN {[frame |-> DestroyFrame(c), destroyed |-> n, proc |-> proc]}
    ELSE {[frame |-> frame, destroyed |-> n, proc |-> proc],
          [frame |-> frame, destroyed |-> n, proc |-> "crashed"]}

\* Task::~Task(): if (handle) handle.destroy();
Task_destructor(k) ==
    /\ task[k] \in {"owner", "empty"}
    /\ task' = [task EXCEPT ![k] = "dead"]
    /\ IF task[k] = "owner"
       THEN \E o \in handle_destroy(k[1]) :
               frame' = o.frame /\ destroyed' = o.destroyed /\ proc' = o.proc /\ UNCHANGED telemetry
       ELSE UNCHANGED <<frame, destroyed, proc, telemetry>>

\* Task(Task&& rhs) : handle(rhs.handle) { rhs.handle = nullptr; }
\* The new Task dst takes what rhs holds (its handle, or nullptr when rhs is
\* itself moved-from) and rhs is left empty.
Task_move_copy(rhs, dst) ==
    /\ task[rhs] \in {"owner", "empty"} /\ task[dst] = "none"
    /\ task' = [task EXCEPT ![dst] = task[rhs]]
Task_move(rhs, dst) ==
    /\ task[rhs] \in {"owner", "empty"} /\ task[dst] = "none"
    /\ task' = [task EXCEPT ![dst] = task[rhs], ![rhs] = "empty"]

\* CoroutineRetvalHolder's member initializers: returned = false, an empty
\* to_resume, an unlocked mutex; value has none.  Calling a coroutine
\* function: the frame is allocated with its promise in it, and
\* get_return_object makes the Task from the promise's handle.
NewHolder ==
    [returned |-> FALSE, value |-> Uninit, to_resume |-> <<>>, mut |-> NoThread]
Promise_get_return_object(c) == [task EXCEPT ![Made(c)] = "owner"]
Spawn(c) ==
    /\ frame' = [frame EXCEPT ![c] = "live"]
    /\ holder' = [holder EXCEPT ![c] = NewHolder]
    /\ task' = Promise_get_return_object(c)
    /\ body' = [body EXCEPT ![c] = "running"]

\* std::suspend_never initial_suspend(): the coroutine does not suspend at its
\* start, so the call of the coroutine function runs the body f at once, on the
\* caller's stack; the caller goes on (as `caller`, holding the Task) when the
\* body returns or suspends.
initial_suspend_always(t, caller, f) == SetTop(t, caller)
initial_suspend(t, caller, f) == Call(t, caller, f)

\* ------------------------------------------------------- the coroutine body
\* Whoever runs the suspended body of c resumes it on thread t, and it goes on
\* to its co_return v.
BodyFrame(c, v) == Frame("body", "co_return", c, NoCont, v, FALSE)
body_resumed(t, c, v) ==
    /\ Running
    /\ t \in Publishers
    /\ Idle(t) /\ Live(c) /\ body[c] = "running"
    /\ published[c] < MaxPublish
    /\ stack' = [stack EXCEPT ![t] = <<BodyFrame(c, v)>>]
    /\ UNCHANGED <<holder, frame, destroyed, body, task, awaiting, resumed,
                   published, registered, woken, proc, telemetry>>

\* co_return: the promise's return_value (return_void) is called; final_suspend
\* follows when it returns.
co_return(t) ==
    /\ Running
    /\ ~Idle(t) /\ Top(t).op \in {"body", "bar"} /\ Top(t).pc = "co_return"
    /\ body' = [body EXCEPT ![Top(t).cell] = "returning"]
    /\ published' = [published EXCEPT ![Top(t).cell] = @ + 1]
    /\ stack' = Call(t, [Top(t) EXCEPT !.pc = "final_suspend"],
                     PublishFrame(Top(t).cell,
                        IF IsVoid(Top(t).cell) THEN Void ELSE Top(t).val))
    /\ UNCHANGED <<holder, frame, destroyed, task, awaiting, resumed,
                   registered, woken, proc, telemetry>>

\* std::suspend_never final_suspend() noexcept: the coroutine does not suspend
\* at its end, so its frame is destroyed as soon as the body has returned.
final_suspend(t) ==
    /\ Running
    /\ ~Idle(t) /\ Top(t).op \in {"body", "bar"} /\ Top(t).pc = "final_suspend"
    /\ \E o \in handle_destroy(Top(t).cell) :
          frame' = o.frame /\ destroyed' = o.destroyed /\ proc' = o.proc /\ UNCHANGED telemetry
    /\ body' = [body EXCEPT ![Top(t).cell] = "done"]
    /\ stack' = Pop(t)
    /\ UNCHANGED <<holder, task, awaiting, resumed, published, registered, woken>>

\* ------------------------------------------------- calls made from outside
\* The coroutines that have been created (their Task may dangle by now).
Created == {c \in Cells : frame[c] # "none"}
\* The cells a Task object can still reach through its handle.
Owners(c) == {k \in Tasks : k[1] = c /\ task[k] = "owner"}
Owned == {c \in Cells : Owners(c) # {}}

\* handle.promise().return_value(v) (return_void()) called directly.
InvokePublish(t) ==
    /\ Running
    /\ t \in Publishers
    /\ Idle(t)
    /\ \E c \in Owned : \E v \in PublishArgs(c) :
          /\ Live(c)
          /\ published[c] < MaxPublish
          /\ published' = [published EXCEPT ![c] = @ + 1]
          /\ stack' = [stack EXCEPT ![t] = <<PublishFrame(c, v)>>]
    /\ UNCHANGED <<holder, frame, destroyed, body, task, awaiting, resumed,
                   registered, woken, proc, telemetry>>

\* Async<T>(value), Async<>(): the immediate awaitables; Async<T>(holder): the
\* deferred one, a back-reference to the holder of a created coroutine.
Immediates ==
    {[imm |-> TRUE, cell |-> NoCell, val |-> v] :
        v \in UNION {PublishArgs(c) : c \in Created}}
Deferreds == {[imm |-> FALSE, cell |-> c, val |-> Void] : c \in Created}

\* await_ready() or await_resume() called on an Async.
InvokeAsync(t) ==
    /\ Running
    /\ t \in Awaiters
    /\ Idle(t)
    /\ \E a \in Immediates \cup Deferreds :
       \E m \in {"Async::await_ready", "CoroutineAwaitResume::await_resume"} :
          stack' = [stack EXCEPT ![t] = <<Frame(m, "enter", a.cell, NoCont, a.val, a.imm)>>]
    /\ UNCHANGED <<holder, frame, destroyed, body, task, awaiting, resumed,
                   published, registered, woken, proc, telemetry>>

\* await_ready() or await_resume() called on a Task that holds a handle.
InvokeTask(t) ==
    /\ Running
    /\ t \in Awaiters
    /\ Idle(t)
    /\ \E c \in Owned : \E m \in {"Task::await_ready", "Task::await_resume"} :
          stack' = [stack EXCEPT ![t] = <<Frame(m, "enter", c, NoCont, Void, FALSE)>>]
    /\ UNCHANGED <<holder, frame, destroyed, body, task, awaiting, resumed,
                   published, registered, woken, proc, telemetry>>

\* await_suspend(h): the coroutine h, which has not awaited anything yet,
\* suspends on an Async or on a Task and hands itself over.  Handles are
\* numbered in the order their coroutines suspend.
InvokeSuspend(t) ==
    /\ Running
    /\ t \in Awaiters
    /\ Idle(t)
    /\ \E h \in Conts :
          /\ awaiting[h].kind = "none"
          /\ \A g \in 1..(h - 1) : awaiting[g].kind # "none"
          /\ \/ \E a \in Immediates \cup Deferreds :
                  /\ awaiting' = [awaiting EXCEPT ![h] =
                        [kind |-> "async", cell |-> a.cell, co |-> NoCell]]
                  /\ stack' = [stack EXCEPT ![t] =
                        <<Frame("Async::await_suspend", "enter", a.cell, h, a.val, a.imm)>>]
             \/ \E c \in Owned :
                  /\ awaiting' = [awaiting EXCEPT ![h] =
                        [kind |-> "task", cell |-> c, co |-> NoCell]]
                  /\ stack' = [stack EXCEPT ![t] =
                        <<Frame("Task::await_suspend", "enter", c, h, Void, FALSE)>>]
    /\ UNCHANGED <<holder, frame, destroyed, body, task, resumed,
                   published, registered, woken, proc, telemetry>>

\* -------------------------------------------------------------- the system
\* One coroutine has been started and its body has suspended: its Task is in
\* the hands of its caller.  Threads then call the methods in any order.
Started ==
    /\ holder = [c \in Cells |-> NewHolder]
    /\ \E c0 \in Cells :
          /\ frame = [c \in Cells |-> IF c = c0 THEN "live" ELSE "none"]
          /\ task = [k \in Tasks |-> IF k = Made(c0) THEN "owner" ELSE "none"]
    /\ destroyed = [c \in Cells |-> 0]
    /\ body = [c \in Cells |-> "running"]
    /\ stack = [t \in Threads |-> <<>>]
    /\ awaiting = [h \in Conts |-> NotAwaiting]
    /\ resumed = [h \in Conts |-> 0]
    /\ published = [c \in Cells |-> 0]
    /\ registered = [c \in Cells |-> <<>>]
    /\ woken = [c \in Cells |-> <<>>]
    /\ stats = ExecutorStats

\* The build without TELEMETRY.
Init ==
    /\ Started
    /\ TELEMETRY = FALSE
    /\ proc = translation_unit(FALSE)

Next ==
    \/ \E t \in Threads :
          \/ InvokePublish(t)
          \/ InvokeAsync(t)
          \/ InvokeTask(t)
          \/ InvokeSuspend(t)
          \/ \E c \in Cells : \E v \in PublishArgs(c) : body_resumed(t, c, v)
          \/ co_return(t)
          \/ final_suspend(t)
          \/ Promise_return_value(t)
          \/ Promise_return_void(t)
          \/ CoroutineAwaitResume_await_resume(t)
          \/ Async_await_ready(t)
          \/ Async_await_suspend(t)
          \/ Task_await_ready(t)
          \/ Task_await_suspend(t)
          \/ Task_await_resume(t)
          \/ coroutine_resume(t)
          \/ Return(t)
          \/ use_after_free(t)

Spec == Init /\ [][Next]_vars

\* The library built either way: without TELEMETRY, or with -DTELEMETRY.
TelemetryInit ==
    /\ Started
    /\ TELEMETRY \in BOOLEAN
    /\ proc = translation_unit(TELEMETRY)

TelemetrySpec == TelemetryInit /\ [][Next]_vars

\* ------------------------------------------------ the lifetime of the Task
\* The thread that holds the Task objects move-constructs a Task from one of
\* them: the new object is the next one of that coroutine.
MoveTask(t) ==
    /\ Running
    /\ t \in Awaiters
    /\ Idle(t)
    /\ \E c \in Created : \E rhs \in {Made(c)} \cup Moved(c) : \E dst \in Moved(c) :
          /\ \A k \in Moved(c) : k[2] < dst[2] => task[k] # "none"
          /\ Task_move(rhs, dst)
    /\ UNCHANGED <<holder, frame, destroyed, body, stack, awaiting, resumed,
                   published, registered, woken, proc, telemetry>>

\* A coroutine is suspended (or has finished) when no thread is running its
\* body: coroutine_handle::destroy() is for a suspended coroutine.
Suspended(c) ==
    \A t \in Threads : \A i \in 1..Len(stack[t]) :
        ~(stack[t][i].cell = c /\ stack[t][i].op \in {"body", "bar"})

\* A Task object goes out of scope on the thread that holds it.
DestroyTask(t) ==
    /\ Running
    /\ t \in Awaiters
    /\ Idle(t)
    /\ \E k \in Tasks :
          /\ Suspended(k[1])
          /\ Task_destructor(k)
    /\ UNCHANGED <<holder, body, stack, awaiting, resumed,
                   published, registered, woken>>

\* The coroutine, its Task objects and its waiters: the body completes on one
\* thread while the other registers waiters, moves the Task and destroys it.
TaskNext ==
    \/ \E t \in Threads :
          \/ MoveTask(t)
          \/ DestroyTask(t)
          \/ InvokeSuspend(t)
          \/ \E c \in Cells : \E v \in PublishArgs(c) : body_resumed(t, c, v)
          \/ co_return(t)
          \/ final_suspend(t)
          \/ Promise_return_value(t)
          \/ Promise_return_void(t)
          \/ CoroutineAwaitResume_await_resume(t)
          \/ Async_await_suspend(t)
          \/ Task_await_suspend(t)
          \/ Task_await_resume(t)
          \/ coroutine_resume(t)
          \/ Return(t)
          \/ use_after_free(t)

TaskSpec == Init /\ [][TaskNext]_vars

\* ------------------------------------------------------------ the program
\* Task<> bar() { co_await foo(); co_return; }
\* In bar's frame h is its own handle, ready what await_ready returned and
\* val what await_resume returned.  co_return and final_suspend are the steps
\* of every body.
bar(t) ==
    /\ Running
    /\ \/ /\ At(t, "bar", "call_foo")
          /\ Spawn("foo")
          /\ stack' = initial_suspend(t, [Top(t) EXCEPT !.pc = "await_ready"],
                                      BodyFrame("foo", FooResult))
          /\ UNCHANGED <<destroyed, awaiting, proc, telemetry>>
       \/ /\ At(t, "bar", "await_ready")
          /\ stack' = Call(t, [Top(t) EXCEPT !.pc = "ready"],
                Frame("Task::await_ready", "enter", "foo", NoCont, Void, FALSE))
          /\ UNCHANGED <<holder, frame, destroyed, body, task, awaiting, proc, telemetry>>
       \/ /\ At(t, "bar", "ready") /\ Top(t).ready
          /\ stack' = Call(t, [Top(t) EXCEPT !.pc = "destroy_temp"],
                Frame("Task::await_resume", "enter", "foo", NoCont, Void, FALSE))
          /\ UNCHANGED <<holder, frame, destroyed, body, task, awaiting, proc, telemetry>>
       \/ /\ At(t, "bar", "ready") /\ ~Top(t).ready
          /\ awaiting' = [awaiting EXCEPT ![BarHandle] =
                [kind |-> "task", cell |-> "foo", co |-> "bar"]]
          /\ stack' = Call(t, [Top(t) EXCEPT !.pc = "suspended"],
                Frame("Task::await_suspend", "enter", "foo", BarHandle, Void, FALSE))
          /\ UNCHANGED <<holder, frame, destroyed, body, task, proc, telemetry>>
       \/ /\ At(t, "bar", "suspended")
          \* bar is suspended: control goes back to whoever called or resumed it
          /\ stack' = Pop(t)
          /\ UNCHANGED <<holder, frame, destroyed, body, task, awaiting, proc, telemetry>>
       \/ /\ At(t, "bar", "enter")
          \* bar is resumed inside its co_await
          /\ stack' = Call(t, [Top(t) EXCEPT !.pc = "destroy_temp"],
                Frame("Task::await_resume", "enter", "foo", NoCont, Void, FALSE))
          /\ UNCHANGED <<holder, frame, destroyed, body, task, awaiting, proc, telemetry>>
       \/ /\ At(t, "bar", "destroy_temp")
          \* the temporary Task<int> dies at the end of the full expression
          /\ Task_destructor(Made("foo"))
          /\ stack' = Goto(t, "co_return")
          /\ UNCHANGED <<holder, body, awaiting>>
    /\ UNCHANGED <<resumed, published, registered, woken>>

\* int main() { bar().handle.resume(); return 0; }
\* Resuming a coroutine whose frame is destroyed is undefined: a crash, or
\* nothing is noticed.
main(t) ==
    /\ \/ /\ Running
          /\ At(t, "main", "call_bar")
          /\ Spawn("bar")
          /\ stack' = initial_suspend(t, [Top(t) EXCEPT !.pc = "resume"],
                Frame("bar", "call_foo", "bar", BarHandle, Void, FALSE))
          /\ UNCHANGED <<destroyed, resumed, proc, telemetry>>
       \/ /\ Running
          /\ At(t, "main", "resume")
          /\ resumed' = [resumed EXCEPT ![BarHandle] = @ + 1]
          /\ IF Live("bar")
             THEN /\ stack' = Call(t, [Top(t) EXCEPT !.pc = "destroy"],
                                   ResumeFrame(BarHandle))
                  /\ proc' = proc /\ UNCHANGED telemetry
             ELSE \/ stack' = Goto(t, "destroy") /\ proc' = proc /\ UNCHANGED telemetry
                  \/ stack' = stack /\ proc' = "crashed" /\ UNCHANGED telemetry
          /\ UNCHANGED <<holder, frame, destroyed, body, task>>
       \/ /\ Running
          /\ At(t, "main", "destroy")
          \* the temporary Task<> dies at the end of the full expression
          /\ Task_destructor(Made("bar"))
          /\ stack' = Goto(t, "return")
          /\ UNCHANGED <<holder, body, resumed>>
       \/ /\ Running
          /\ At(t, "main", "return")
          /\ stack' = Pop(t)
          /\ proc' = "exited" /\ UNCHANGED telemetry
          /\ UNCHANGED <<holder, frame, destroyed, body, task, resumed>>
    /\ UNCHANGED <<awaiting, published, registered, woken>>

MainThread == "t1"

\* Process startup: nothing has been created, main is about to run.
MainInit ==
    /\ holder = [c \in Cells |-> NewHolder]
    /\ frame = [c \in Cells |-> "none"]
    /\ task = [k \in Tasks |-> "none"]
    /\ destroyed = [c \in Cells |-> 0]
    /\ body = [c \in Cells |-> "running"]
    /\ stack = [t \in Threads |->
            IF t = MainThread
            THEN <<Frame("main", "call_bar", NoCell, NoCont, Void, FALSE)>>
            ELSE <<>>]
    /\ awaiting = [h \in Conts |-> NotAwaiting]
    /\ resumed = [h \in Conts |-> 0]
    /\ published = [c \in Cells |-> 0]
    /\ registered = [c \in Cells |-> <<>>]
    /\ woken = [c \in Cells |-> <<>>]
    /\ TELEMETRY = FALSE
    /\ stats = ExecutorStats
    /\ proc = translation_unit(FALSE)

MainNext ==
    \/ main(MainThread)
    \/ bar(MainThread)
    \/ co_return(MainThread)
    \/ final_suspend(MainThread)
    \/ Promise_return_value(MainThread)
    \/ Promise_return_void(MainThread)
    \/ Task_await_ready(MainThread)
    \/ Task_await_suspend(MainThread)
    \/ Task_await_resume(MainThread)
    \/ Return(MainThread)
    \/ use_after_free(MainThread)

MainSpec == MainInit /\ [][MainNext]_vars

\* ------------------------------------------------------------- properties
PublishOps == {"Promise::return_value", "Promise::return_void"}
SuspendOps == {"Async::await_suspend", "Task::await_suspend"}
TaskOps == {"Task::await_ready", "Task::await_suspend", "Task::await_resume"}
AwaitResume == "CoroutineAwaitResume::await_resume"

IsPrefix(p, q) == Len(p) <= Len(q) /\ SubSeq(q, 1, Len(p)) = p
\* Thread t takes a step in this transition (every step moves its frame).
Steps(t) == ~Idle(t) /\ stack'[t] # stack[t]
\* Some call of one of ops on cell c (for handle h) has not returned yet.
InCall(ops, c) ==
    \E t \in Threads : \E i \in 1..Len(stack[t]) :
        stack[t][i].op \in ops /\ stack[t][i].cell = c
Suspending(h) ==
    \E t \in Threads : \E i \in 1..Len(stack[t]) :
        stack[t][i].op \in SuspendOps /\ stack[t][i].h = h

\* C1: a publish attempted on a cell whose completed flag is already true is
\* rejected or fatal: the step that would store the value leaves the stored
\* value as it is, and the call never gets to walk the waiter list again.
C1_SecondPublishRejected ==
    [][\A t \in Threads :
        (/\ Steps(t)
         /\ Top(t).op \in PublishOps
         /\ Top(t).pc \in {"store", "flag"}
         /\ Live(Top(t).cell)
         /\ holder[Top(t).cell].returned)
        => /\ holder'[Top(t).cell].value = holder[Top(t).cell].value
           /\ Top(t)'.pc # "loop"]_vars

\* C2: a continuation handed to await_suspend on a cell is resumed exactly
\* once: never twice, and, once its await_suspend call and a publish on the
\* cell have both returned, not zero times.
C2_ResumedExactlyOnce ==
    \A h \in Conts :
        /\ resumed[h] <= 1
        /\ (/\ Running
            /\ awaiting[h].kind # "none"
            /\ awaiting[h].cell \in Cells
            /\ ~Suspending(h)
            /\ published[awaiting[h].cell] >= 1
            /\ ~InCall(PublishOps, awaiting[h].cell))
           => resumed[h] = 1

\* C3: a publish resumes the waiters in the order in which they were
\* registered: what it has resumed so far is always a prefix of the
\* registration order, and all of it when the publish returns.
C3_FifoWakeOrder ==
    \A c \in Cells :
        /\ IsPrefix(woken[c], registered[c])
        /\ \A t \in Threads :
              (~Idle(t) /\ Top(t).op \in PublishOps /\ Top(t).cell = c
                  /\ Top(t).pc = "ret")
              => woken[c] = registered[c]
C3_Witness ==
    \E t \in Threads :
        /\ ~Idle(t) /\ Top(t).op \in PublishOps /\ Top(t).pc = "ret"
        /\ Len(woken[Top(t).cell]) >= 2
        /\ woken[Top(t).cell] = registered[Top(t).cell]

\* C4: the cell of a Task stays alive as long as a Task object owns it: the
\* frame of a coroutine some Task holds the handle of is not destroyed, and
\* every Task method runs on a live cell.
C4_CellAliveWhileOwned ==
    /\ \A c \in Owned : Live(c)
    /\ \A t \in Threads :
          (~Idle(t) /\ Top(t).op \in TaskOps) => Live(Top(t).cell)

\* C5: in the program, bar's body gets past its co_await without ever
\* suspending, with foo's value 42 as the result of the await, and the
\* process neither terminates nor crashes.
C5_EndToEnd ==
    /\ proc \in {"running", "exited"}
    /\ awaiting[BarHandle].kind = "none"
    /\ \A t \in Threads : \A i \in 1..Len(stack[t]) :
          (stack[t][i].op = "bar"
              /\ stack[t][i].pc \in {"destroy_temp", "co_return", "final_suspend"})
          => stack[t][i].val = FooResult

\* C6: while a waiter is being resumed by return_value / return_void, the
\* publishing thread does not hold the cell's mutex.
C6_NoResumeUnderLock ==
    \A t \in Threads : \A i \in 2..Len(stack[t]) :
        (/\ stack[t][i - 1].op \in PublishOps
         /\ stack[t][i].op \in {"resume", "bar"}
         /\ Live(stack[t][i - 1].cell))
        => holder[stack[t][i - 1].cell].mut # t

\* The frame is about to read or write returned, value or to_resume.
Accesses(f) ==
    /\ f.cell \in Cells
    /\ \/ f.op \in PublishOps /\ f.pc \in {"store", "flag"}
       \/ f.op \in PublishOps /\ f.pc = "loop" /\ f.todo # <<>>
       \/ f.op = AwaitResume /\ f.pc = "check"
       \/ f.op = "Async::await_ready" /\ f.pc = "read"
       \/ f.op \in SuspendOps /\ f.pc = "check"
       \/ f.op = "Task::await_ready" /\ f.pc = "enter"
       \/ f.op = "Task::await_resume" /\ f.pc = "enter" /\ ~IsVoid(f.cell)

\* C7: every read and write of a cell's returned, value and to_resume is made
\* by a thread that holds the cell's mutex.
C7_AccessUnderLock ==
    \A t \in Threads :
        (~Idle(t) /\ Accesses(Top(t)) /\ Live(Top(t).cell))
        => holder[Top(t).cell].mut = t

\* C8: Task::await_resume called while the cell is not completed is fatal, and
\* called on a completed cell it returns the published value.
C8_ResultBeforeCompletionIsFatal ==
    [][\A t \in Threads :
        (/\ Steps(t)
         /\ Top(t).op = "Task::await_resume" /\ Top(t).pc = "enter"
         /\ Live(Top(t).cell))
        => IF holder[Top(t).cell].returned
           THEN /\ Top(t)'.pc = "ret"
                /\ IsVoid(Top(t).cell) \/ Top(t)'.val = holder[Top(t).cell].value
           ELSE proc' = "terminated"]_vars

\* The three fields of every cell.
Fields(hd) ==
    [c \in Cells |-> <<hd[c].returned, hd[c].value, hd[c].to_resume>>]

C10_ImmediateAlwaysReady ==
    [][\A t \in Threads :
        (Steps(t) /\ Top(t).imm)
        => /\ holder' = holder /\ registered' = registered /\ resumed' = resumed
           /\ (Top(t).op = "Async::await_ready" /\ Top(t).pc = "enter")
              => (Top(t)'.pc = "ret" /\ Top(t)'.ready)
           /\ (Top(t).op = "Async::await_suspend" /\ Top(t).pc = "enter")
              => proc' = "terminated"]_vars
C10_Witness ==
    /\ proc = "terminated"
    /\ \E t \in Threads :
          /\ ~Idle(t) /\ Top(t).imm /\ Top(t).op = "Async::await_suspend"
          /\ resumed[Top(t).h] = 0

\* C11: await_suspend on a completed cell invokes the continuation at once and
\* leaves the waiter list as it is; on a cell that is not completed it appends
\* the continuation and does not invoke it; the list of a completed cell never
\* changes.
C11_NoAppendAfterCompleted ==
    [][/\ \A c \in Cells :
             holder[c].returned => holder'[c].to_resume = holder[c].to_resume
       /\ \A t \in Threads :
             (Steps(t) /\ Top(t).op \in SuspendOps /\ Top(t).pc = "check")
             => IF holder[Top(t).cell].returned
                THEN /\ resumed'[Top(t).h] = resumed[Top(t).h] + 1
                     /\ holder'[Top(t).cell].to_resume
                            = holder[Top(t).cell].to_resume
                ELSE /\ resumed'[Top(t).h] = resumed[Top(t).h]
                     /\ holder'[Top(t).cell].to_resume
                            = Append(holder[Top(t).cell].to_resume, Top(t).h)]_vars

\* C12: returned is false when the holder is constructed, goes from false to
\* true only in a step of return_value / return_void on that cell, and never
\* goes from true to false.
C12_CompletedMonotonic ==
    /\ \A c \in Cells : ~holder[c].returned
    /\ [][\A c \in Cells :
             /\ holder[c].returned => holder'[c].returned
             /\ (~holder[c].returned /\ holder'[c].returned)
                => \E t \in Threads :
                      /\ Steps(t) /\ Top(t).op \in PublishOps
                      /\ Top(t).pc = "flag" /\ Top(t).cell = c]_vars
C12_Witness ==
    \E c \in Cells :
        /\ Live(c) /\ holder[c].returned
        /\ published[c] >= 2 /\ ~InCall(PublishOps, c)

\* C14: when return_value or return_void returns, every continuation in the
\* cell's waiter list has been resumed, by the publishing thread, and the
\* resumed continuation has already handed control back.
C14_PublishResumesAll ==
    \A t \in Threads :
        (~Idle(t) /\ Top(t).op \in PublishOps /\ Top(t).pc = "ret"
            /\ Live(Top(t).cell))
        => \A i \in 1..Len(holder[Top(t).cell].to_resume) :
              LET h == holder[Top(t).cell].to_resume[i] IN
              /\ resumed[h] >= 1
              /\ \E j \in 1..Len(woken[Top(t).cell]) : woken[Top(t).cell][j] = h
C14_Witness ==
    \E t \in Threads :
        /\ At(t, "Promise::return_void", "ret")
        /\ Live(Top(t).cell)
        /\ Len(holder[Top(t).cell].to_resume) >= 2
        /\ \A i \in 1..Len(holder[Top(t).cell].to_resume) :
              resumed[holder[Top(t).cell].to_resume[i]] = 1

\* C17: no thread is blocked on a cell's mutex that the thread itself holds.
C17_NoSelfDeadlock ==
    \A t \in Threads : \A i \in 1..Len(stack[t]) :
        stack[t][i].pc # "deadlocked"

\* C19: a cell's value is written at most once, and only while returned is
\* still false.
C19_ValueWrittenOnce ==
    [][\A c \in Cells :
          /\ holder[c].value # Uninit => holder'[c].value = holder[c].value
          /\ holder'[c].value # holder[c].value => ~holder[c].returned]_vars

C18_FrameDestroyedOnce ==
    /\ \A c \in Cells :
          /\ destroyed[c] <= 1
          /\ frame[c] = "destroyed" => task[Made(c)] = "dead"
    /\ ~(At(MainThread, "main", "resume") /\ frame["bar"] = "destroyed")

\* The Task that owned c's handle has been destroyed.
OwnerDead(c) ==
    /\ Owners(c) = {}
    /\ \E k \in Tasks : k[1] = c /\ task[k] = "dead"
Range(q) == {q[i] : i \in 1..Len(q)}

\* C15: at most one Task object holds the handle of a coroutine; a Task loses
\* the handle only by being moved from, which leaves it empty and hands the
\* handle to the new Task, or by being destroyed; and destroying a moved-from
\* Task destroys nothing.
C15_ExclusiveOwnership ==
    /\ [](\A c \in Cells : Cardinality(Owners(c)) <= 1)
    /\ [][\A k \in Tasks :
             /\ (task[k] = "owner" /\ task'[k] # "owner")
                => \/ task'[k] = "dead"
                   \/ /\ task'[k] = "empty"
                      /\ \E dst \in Moved(k[1]) :
                            task[dst] = "none" /\ task'[dst] = "owner"
             /\ (task[k] = "empty" /\ task'[k] = "dead")
                => /\ frame' = frame /\ destroyed' = destroyed
                   /\ holder' = holder /\ proc' = proc]_vars
C15_Witness ==
    \E c \in Cells :
        /\ Live(c) /\ destroyed[c] = 0
        /\ task[Made(c)] = "dead"
        /\ task[<<c, 1>>] = "empty"
        /\ task[<<c, 2>>] = "owner"

\* C16: once the owning Task of a cell that is not completed and has waiters
\* is destroyed, the cell never completes and none of its waiters is resumed
\* by any later step.
C16_DanglingWaiters ==
    [][\A c \in Cells :
          (OwnerDead(c) /\ ~holder[c].returned /\ holder[c].to_resume # <<>>)
          => /\ holder'[c] = holder[c]
             /\ \A h \in Range(holder[c].to_resume) :
                   resumed'[h] = resumed[h] /\ resumed[h] = 0]_vars
C16_Witness ==
    \E c \in Cells :
        /\ OwnerDead(c) /\ frame[c] = "destroyed" /\ destroyed[c] = 1
        /\ ~holder[c].returned /\ Len(holder[c].to_resume) >= 2
        /\ \A h \in Range(holder[c].to_resume) : resumed[h] = 0

\* Exactly the named counter goes up by one in the TELEMETRY build; the build
\* without TELEMETRY has no counters.
Counted(counter) ==
    stats' = IF TELEMETRY THEN [stats EXCEPT ![counter] = @ + 1] ELSE stats

\* C20: the TELEMETRY build is a program that behaves as the build without
\* it: await_ready returns true on an immediate awaitable and the cell's
\* returned on a deferred one, in both builds, and changes no field of a cell;
\* with TELEMETRY each call increments exactly the counter of the branch it
\* takes, and nothing else touches the counters.
C20_TelemetryNeverGates ==
    /\ [](TELEMETRY => proc # "ill-formed")
    /\ [][/\ \A t \in Threads :
               (Steps(t) /\ Top(t).op = "Async::await_ready")
               => /\ Fields(holder') = Fields(holder)
                  /\ (Top(t).pc = "enter" /\ Top(t).imm)
                     => /\ Top(t)'.pc = "ret" /\ Top(t)'.ready
                        /\ Counted("total_immediate_ready")
                  /\ (Top(t).pc = "read" /\ Live(Top(t).cell))
                     => /\ Top(t)'.ready = holder[Top(t).cell].returned
                        /\ Counted(IF holder[Top(t).cell].returned
                                   THEN "total_awaitable_ready"
                                   ELSE "total_awaitable_need_to_wait")
                  /\ (Top(t).pc \notin {"enter", "read"}
                        \/ (Top(t).pc = "enter" /\ ~Top(t).imm))
                     => stats' = stats
          /\ (\A t \in Threads : ~(Steps(t) /\ Top(t).op = "Async::await_ready"))
               => stats' = stats]_vars

====
